---- MODULE Spec2Model ----
(***************************************************************************)
(* Model of the TailPOS provisioning scripts of erpnext-develop:           *)
(*   cors_config.py  - editor of site_config.json (CORS / CSRF / API)      *)
(*   setup_pos.py    - one-shot seeder of the POS environment              *)
(*                                                                         *)
(* Three specifications share the module:                                  *)
(*   SpecCors  the operations of cors_config.py on site_config.json        *)
(*   SpecKeys  generate_api_key / generate_api_secret, character by        *)
(*             character                                                   *)
(*   Spec      main() of setup_pos.py against the framework's database     *)
(***************************************************************************)
EXTENDS Integers, Sequences, FiniteSets, TLC

VARIABLES
    site_config,      \* the file site_config.json: absent, or its text
    local_conf,       \* frappe.local.conf (in-memory configuration)
    system_settings,  \* the System Settings document
    cors_call,        \* the last cors_config call: operation, arguments, result
    http,             \* the last request handled and the response returned
    rng,              \* the state of the system random source (secrets)
    generated,        \* the last string generate_api_key / _secret returned
    db,               \* the database as the open transaction sees it
    committed,        \* the database as of the last frappe.db.commit()
    pc,               \* main(): the step to run next, "idle" between runs
    locals,           \* main(): its local variables
    cred_file,        \* the file pos_credentials.json: absent, or its content
    faults,           \* exceptions the framework has raised on its own so far
    cur,              \* the run of main() in progress: what it has done
    runs              \* the runs of main() that have ended, in order

cors_vars == <<site_config, local_conf, system_settings, cors_call, http>>
key_vars  == <<rng, generated>>
pos_vars  == <<db, committed, pc, locals, cred_file, faults, cur, runs>>

----------------------------------------------------------------------------
(* Python / JSON values.  Every value carries its type as its field name,  *)
(* so that values of different types compare unequal.                      *)

PyStr(s)  == [str |-> s]
PyInt(n)  == [int |-> n]
PyList(q) == [list |-> q]
PyDict(d) == [dict |-> d]
PyNone    == [null |-> TRUE]

IsDict(v) == DOMAIN v = {"dict"}
IsList(v) == DOMAIN v = {"list"}

EmptyDict == <<>>

\* d[k] = v on a Python dict: the key is added or its value replaced.
DictSet(d, k, v) == [x \in (DOMAIN d) \cup {k} |-> IF x = k THEN v ELSE d[x]]

\* d.get(k, default)
DictGet(d, k, default) == IF k \in DOMAIN d THEN d[k] ELSE default

(* The file system: site_config.json is absent, or holds a text.  A text   *)
(* is either the serialisation of a JSON document or not parseable.        *)
NoFile       == [exists |-> FALSE]
FileOf(text) == [exists |-> TRUE, text |-> text]
Garbage      == [wf |-> FALSE]

\* json.dump(config, f, indent=2): dicts, lists, strings and integers are
\* written as JSON objects, arrays, strings and numbers.
json_dump(v) == [wf |-> TRUE, doc |-> v]

\* json.load(f): raises on a text that is no JSON document.
json_load(text) ==
    IF text.wf THEN [raised |-> FALSE, val |-> text.doc]
               ELSE [raised |-> TRUE,  val |-> PyNone]

----------------------------------------------------------------------------
(* cors_config.enable_cors(origins)                                        *)

\* The result of one call on the files: the file and frappe.local.conf
\* afterwards, the value returned, whether site_config.json was written.
CorsOut(file, lc, ret, wrote) ==
    [file |-> file, lc |-> lc, ret |-> ret, wrote |-> wrote]

\* Methode 2: frappe.local.conf.allow_cors / ignore_csrf, any error ignored.
set_local_conf(lc, origins) ==
    IF IsDict(lc)
    THEN PyDict(DictSet(DictSet(lc.dict, "allow_cors", origins),
                        "ignore_csrf", PyInt(1)))
    ELSE lc

\* A variant that reports success although the file was not found.
enable_cors_absent_ok(file, lc, origins) ==
    IF ~file.exists THEN CorsOut(file, lc, TRUE, FALSE)
    ELSE
    LET loaded == json_load(file.text) IN
    IF loaded.raised THEN CorsOut(file, lc, FALSE, FALSE)
    ELSE
    LET config == loaded.val IN
    IF ~IsDict(config) THEN CorsOut(file, lc, FALSE, FALSE)
    ELSE
    LET c1 == DictSet(DictSet(config.dict, "allow_cors", origins),
                      "ignore_csrf", PyInt(1))
        c2 == IF "api_settings" \notin DOMAIN c1
              THEN DictSet(c1, "api_settings", PyDict(EmptyDict))
              ELSE c1
    IN
    IF ~IsDict(c2["api_settings"]) THEN CorsOut(file, lc, FALSE, FALSE)
    ELSE
    LET api == DictSet(DictSet(c2["api_settings"].dict, "enable_api", PyInt(1)),
                       "allow_api_key_authentication", PyInt(1))
        c3  == DictSet(c2, "api_settings", PyDict(api))
    IN  CorsOut(FileOf(json_dump(PyDict(c3))), set_local_conf(lc, origins),
                TRUE, TRUE)

enable_cors(file, lc, origins) ==
    IF ~file.exists THEN CorsOut(file, lc, FALSE, FALSE)
    ELSE
    LET loaded == json_load(file.text) IN
    IF loaded.raised THEN CorsOut(file, lc, FALSE, FALSE)
    ELSE
    LET config == loaded.val IN
    \* config['allow_cors'] = origins raises TypeError on a list
    IF ~IsDict(config) THEN CorsOut(file, lc, FALSE, FALSE)
    ELSE
    LET c1 == DictSet(DictSet(config.dict, "allow_cors", origins),
                      "ignore_csrf", PyInt(1))
        c2 == IF "api_settings" \notin DOMAIN c1
              THEN DictSet(c1, "api_settings", PyDict(EmptyDict))
              ELSE c1
    IN
    \* config['api_settings']['enable_api'] = 1 raises unless it is a dict
    IF ~IsDict(c2["api_settings"]) THEN CorsOut(file, lc, FALSE, FALSE)
    ELSE
    LET api == DictSet(DictSet(c2["api_settings"].dict, "enable_api", PyInt(1)),
                       "allow_api_key_authentication", PyInt(1))
        c3  == DictSet(c2, "api_settings", PyDict(api))
    IN  CorsOut(FileOf(json_dump(PyDict(c3))), set_local_conf(lc, origins),
                TRUE, TRUE)

----------------------------------------------------------------------------
(* cors_config.configure_api_settings(rate_limit, rate_limit_window)       *)

\* The four parameters the function stores under api_settings.
api_parameters(rate_limit, rate_limit_window) ==
    [enable_api |-> PyInt(1),
     allow_api_key_authentication |-> PyInt(1),
     rate_limit |-> PyInt(rate_limit),
     rate_limit_window |-> PyInt(rate_limit_window)]

\* The System Settings block: enable_api is set when the field exists; an
\* exception (ss_fails) is printed and ignored.
update_system_settings(ss, ss_fails) ==
    IF ss_fails \/ ~ss.has_enable_api THEN ss
    ELSE [ss EXCEPT !.enable_api = 1]

configure_api_settings(file, rate_limit, rate_limit_window) ==
    IF ~file.exists THEN [file |-> file, ret |-> TRUE, wrote |-> FALSE, ss |-> TRUE]
    ELSE
    LET loaded == json_load(file.text) IN
    IF loaded.raised
    THEN [file |-> file, ret |-> FALSE, wrote |-> FALSE, ss |-> FALSE]
    ELSE
    LET config == loaded.val IN
    \* config['api_settings'] = {...} raises TypeError on a list
    IF ~IsDict(config)
    THEN [file |-> file, ret |-> FALSE, wrote |-> FALSE, ss |-> FALSE]
    ELSE
    LET c1 == DictSet(config.dict, "api_settings",
                      PyDict(api_parameters(rate_limit, rate_limit_window)))
    IN  [file |-> FileOf(json_dump(PyDict(c1))), ret |-> TRUE, wrote |-> TRUE,
         ss |-> TRUE]

----------------------------------------------------------------------------
(* cors_config.disable_csrf()                                              *)

\* A variant that writes a configuration holding ignore_csrf alone.
disable_csrf_fresh(file) ==
    IF ~file.exists THEN [file |-> file, ret |-> FALSE, wrote |-> FALSE]
    ELSE
    LET loaded == json_load(file.text) IN
    IF loaded.raised \/ ~IsDict(loaded.val)
    THEN [file |-> file, ret |-> FALSE, wrote |-> FALSE]
    ELSE [file  |-> FileOf(json_dump(PyDict(
                        DictSet(EmptyDict, "ignore_csrf", PyInt(1))))),
          ret   |-> TRUE,
          wrote |-> TRUE]

disable_csrf(file) ==
    \* open(site_config_path, 'r') raises when the file is absent
    IF ~file.exists THEN [file |-> file, ret |-> FALSE, wrote |-> FALSE]
    ELSE
    LET loaded == json_load(file.text) IN
    IF loaded.raised \/ ~IsDict(loaded.val)
    THEN [file |-> file, ret |-> FALSE, wrote |-> FALSE]
    ELSE [file  |-> FileOf(json_dump(PyDict(
                        DictSet(loaded.val.dict, "ignore_csrf", PyInt(1))))),
          ret   |-> TRUE,
          wrote |-> TRUE]

----------------------------------------------------------------------------
(* cors_config.check_cors_config()                                         *)

ConfigStatus(cors_enabled, csrf_disabled, api_enabled, origins) ==
    [cors_enabled |-> cors_enabled, csrf_disabled |-> csrf_disabled,
     api_enabled |-> api_enabled, origins |-> origins]

\* A variant that reports the API as enabled only with a rate limit set.
check_cors_config_rate_limited(file) ==
    LET default == ConfigStatus(FALSE, FALSE, FALSE, PyNone) IN
    IF ~file.exists THEN default
    ELSE
    LET loaded == json_load(file.text) IN
    IF loaded.raised THEN default
    ELSE
    LET config == loaded.val IN
    IF ~IsDict(config) THEN default
    ELSE
    LET c        == config.dict
        cors     == "allow_cors" \in DOMAIN c
        origins  == DictGet(c, "allow_cors", PyNone)
        csrf     == DictGet(c, "ignore_csrf", PyInt(0)) = PyInt(1)
        api      == DictGet(c, "api_settings", PyDict(EmptyDict))
    IN
    IF ~IsDict(api) THEN ConfigStatus(cors, csrf, FALSE, origins)
    ELSE ConfigStatus(cors, csrf,
                      /\ DictGet(api.dict, "enable_api", PyInt(0)) = PyInt(1)
                      /\ "rate_limit" \in DOMAIN api.dict,
                      origins)

check_cors_config(file) ==
    LET default == ConfigStatus(FALSE, FALSE, FALSE, PyNone) IN
    IF ~file.exists THEN default
    ELSE
    LET loaded == json_load(file.text) IN
    IF loaded.raised THEN default
    ELSE
    LET config == loaded.val IN
    \* 'allow_cors' in <list> is False; <list>.get raises AttributeError
    IF ~IsDict(config) THEN default
    ELSE
    LET c        == config.dict
        cors     == "allow_cors" \in DOMAIN c
        origins  == DictGet(c, "allow_cors", PyNone)
        csrf     == DictGet(c, "ignore_csrf", PyInt(0)) = PyInt(1)
        api      == DictGet(c, "api_settings", PyDict(EmptyDict))
    IN
    \* api_settings.get raises AttributeError unless api_settings is a dict:
    \* the three values already stored stay, api_enabled keeps its default
    IF ~IsDict(api) THEN ConfigStatus(cors, csrf, FALSE, origins)
    ELSE ConfigStatus(cors, csrf,
                      DictGet(api.dict, "enable_api", PyInt(0)) = PyInt(1),
                      origins)

----------------------------------------------------------------------------
(* setup_pos.generate_api_key / generate_api_secret                        *)

AsciiLowercase ==
    <<"a","b","c","d","e","f","g","h","i","j","k","l","m",
      "n","o","p","q","r","s","t","u","v","w","x","y","z">>
AsciiUppercase ==
    <<"A","B","C","D","E","F","G","H","I","J","K","L","M",
      "N","O","P","Q","R","S","T","U","V","W","X","Y","Z">>
AsciiLetters == AsciiLowercase \o AsciiUppercase
Digits       == <<"0","1","2","3","4","5","6","7","8","9">>
Punctuation  == <<"!","#","$","%","&","*","+","-","/","=","?","@","_","~">>

\* string.ascii_letters + string.digits
KeyAlphabet == AsciiLetters \o Digits

API_KEY_LENGTH    == 20
API_SECRET_LENGTH == 40

(* The random source.  secrets.choice(seq) returns seq[randbelow(len(seq))]; *)
(* the stream of numbers drawn is what differs from call to call.  A source *)
(* is modelled by a position and a stride: its k-th draw below n is         *)
(* (pos + k * stride) % n.                                                  *)
MaxStride == 2
Strides   == 0..MaxStride

randbelow(r, k, n) == (r.pos + k * r.stride) % n

\* secrets.choice(seq), as the k-th draw (k = 0, 1, ...) from source r
choice(seq, r, k) == seq[randbelow(r, k, Len(seq)) + 1]

\* The source after count draws.
advance(r, count) == [r EXCEPT !.pos = (r.pos + count * r.stride) % Len(KeyAlphabet)]

\* ''.join(secrets.choice(alphabet) for _ in range(length))
join_choices(alphabet, length, r) == [k \in 1..length |-> choice(alphabet, r, k - 1)]

\* A variant drawing from letters, digits and punctuation.
generate_api_key_punct(r) ==
    join_choices(KeyAlphabet \o Punctuation, API_KEY_LENGTH, r)

generate_api_key(r) == join_choices(KeyAlphabet, API_KEY_LENGTH, r)

generate_api_secret(r) == join_choices(KeyAlphabet, API_SECRET_LENGTH, r)

NoString == [kind |-> "none", value |-> <<>>]

Call_generate_api_key ==
    /\ generated' = [kind |-> "api_key", value |-> generate_api_key(rng)]
    /\ rng' = advance(rng, API_KEY_LENGTH)
    /\ UNCHANGED <<cors_vars, pos_vars>>

Call_generate_api_secret ==
    /\ generated' = [kind |-> "api_secret", value |-> generate_api_secret(rng)]
    /\ rng' = advance(rng, API_SECRET_LENGTH)
    /\ UNCHANGED <<cors_vars, pos_vars>>

KeysInit ==
    /\ rng \in [pos : 0..(Len(KeyAlphabet) + Len(Punctuation) - 1), stride : Strides]
    /\ generated = NoString

KeysNext ==
    \/ Call_generate_api_key
    \/ Call_generate_api_secret

----------------------------------------------------------------------------
(* setup_pos.py: configuration constants.  A company name and a company    *)
(* abbreviation are kept as sequences of characters, since the script      *)
(* slices and upper-cases them; the name "<base> - <suffix>" of a warehouse *)
(* is kept as the pair of its two parts.                                   *)

POS_USER_EMAIL       == "pos_user@example.com"
DEFAULT_WAREHOUSE    == [base |-> "Main Store", suffix |-> <<"M","S">>]
DEFAULT_PRICE_LIST   == "Standard Selling"
DEFAULT_POS_PROFILE  == "Default POS Profile"
DEFAULT_COMPANY      == <<"M","y"," ","C","o","m","p","a","n","y">>
DEFAULT_COMPANY_ABBR == <<"M","C">>
DEFAULT_CUSTOMER     == "Walk-in Customer"

SAMPLE_ITEMS ==
    <<[item_code |-> "ITEM-001", barcode |-> "1000000001"],
      [item_code |-> "ITEM-002", barcode |-> "1000000002"],
      [item_code |-> "ITEM-003", barcode |-> "1000000003"],
      [item_code |-> "ITEM-004", barcode |-> "1000000004"],
      [item_code |-> "ITEM-005", barcode |-> "1000000005"]>>

required_roles == <<"POS User", "Sales User", "Stock User", "Item Manager">>

\* str.upper() on one character
Upper(ch) ==
    IF \E i \in 1..Len(AsciiLowercase) : AsciiLowercase[i] = ch
    THEN AsciiUppercase[CHOOSE i \in 1..Len(AsciiLowercase) : AsciiLowercase[i] = ch]
    ELSE ch

\* name[:2].upper()
FirstTwoUpper(name) ==
    LET n == IF Len(name) < 2 THEN Len(name) ELSE 2
    IN  [i \in 1..n |-> Upper(name[i])]

\* DEFAULT_WAREHOUSE.split(' - ')[0]
WarehouseBase == DEFAULT_WAREHOUSE.base

\* f"{base} - {suffix}"
WarehouseName(base, suffix) == [base |-> base, suffix |-> suffix]

----------------------------------------------------------------------------
(* The host framework (frappe / ERPNext) as the script uses it: the        *)
(* database is a set of tables keyed by document name, written inside a    *)
(* transaction that frappe.db.commit() makes durable and                   *)
(* frappe.db.rollback() discards.  insert() names the document by the rule *)
(* of its doctype, raises DuplicateEntryError when that name is taken and  *)
(* a validation error when a link it holds points at no document.          *)

\* frappe.db.commit() / frappe.db.rollback(), on the pair <<db, committed>>
Commit(d)      == d
Rollback(c)    == c

\* frappe.get_all("Company", limit=1): the most recently modified company
\* first; the Company table is kept in that order.
get_all_company_limit_1(d) ==
    IF Len(d.Company) = 0 THEN <<>> ELSE <<Head(d.Company)>>

CompanyNames(d)   == {d.Company[i].name : i \in 1..Len(d.Company)}
WarehouseNames(d) == {w.name : w \in d.Warehouse}

\* The abbreviation of a company, as stored on its Company document.
CompanyAbbr(d, company_name) ==
    LET i == CHOOSE i \in 1..Len(d.Company) : d.Company[i].name = company_name
    IN  d.Company[i].abbr

\* The name insert() gives a Warehouse: its warehouse_name followed by the
\* abbreviation of its company.
WarehouseAutoname(d, warehouse_name, company_name) ==
    WarehouseName(warehouse_name, CompanyAbbr(d, company_name))

\* frappe.db.get_value("Warehouse", {"company": c, "is_group": 1}, "name")
group_warehouse_of(d, company_name) ==
    LET groups == {w \in d.Warehouse : w.company = company_name /\ w.is_group}
    IN  IF groups = {} THEN PyNone
        ELSE PyStr((CHOOSE w \in groups : TRUE).name)

\* What a function of the script hands back to its caller: the database and
\* its committed state afterwards, the value returned (when it returns),
\* whether it raised, and how many framework exceptions it met.
Result(d, c, ret, raised, hit) ==
    [db |-> d, committed |-> c, ret |-> ret, raised |-> raised, hit |-> hit]

----------------------------------------------------------------------------
(* create_company()                                                        *)

\* Company.insert(): the company goes first in the table (it is the most
\* recently modified).  defaults: whether this installation of the framework
\* also creates the company's root warehouse, "All Warehouses - <abbr>",
\* as part of the insert.
insert_company(d, company, defaults) ==
    LET root == [name |-> WarehouseName("All Warehouses", company.abbr),
                 company |-> company.name, is_group |-> TRUE]
    IN  [d EXCEPT !.Company = <<company>> \o @,
                  !.Warehouse = IF defaults THEN @ \cup {root} ELSE @]

\* A variant that looks for the default company by name.
create_company_by_name(d, c, fault, defaults) ==
    IF fault \in {"get_all", "insert"} THEN Result(d, c, PyNone, TRUE, 1)
    ELSE
    IF DEFAULT_COMPANY \in CompanyNames(d)
    THEN Result(d, c, PyStr(DEFAULT_COMPANY), FALSE, 0)
    ELSE
    LET company == [name |-> DEFAULT_COMPANY, abbr |-> DEFAULT_COMPANY_ABBR]
        d1      == insert_company(d, company, defaults)
    IN  Result(d1, Commit(d1), PyStr(company.name), FALSE, 0)

\* fault: the framework call that raises in this call, "none" for none.
create_company(d, c, fault, defaults) ==
    IF fault = "get_all" THEN Result(d, c, PyNone, TRUE, 1)
    ELSE
    LET existing_companies == get_all_company_limit_1(d) IN
    IF Len(existing_companies) > 0
    THEN Result(d, c, PyStr(existing_companies[1].name), FALSE, 0)
    ELSE
    IF fault = "insert" THEN Result(d, c, PyNone, TRUE, 1)
    ELSE
    IF DEFAULT_COMPANY \in CompanyNames(d)
    THEN \* except frappe.DuplicateEntryError
         Result(d, c, PyStr(DEFAULT_COMPANY), FALSE, 0)
    ELSE
    LET company == [name |-> DEFAULT_COMPANY, abbr |-> DEFAULT_COMPANY_ABBR]
        d1      == insert_company(d, company, defaults)
    IN  Result(d1, Commit(d1), PyStr(company.name), FALSE, 0)

----------------------------------------------------------------------------
(* setup_api_access(user_email) and create_pos_user()                      *)

\* not api_key: None and the empty string are both false
Falsy(v) == v = PyNone \/ v = PyStr(<<>>)

\* A variant that generates a new API key on every call.
setup_api_access_new_key(d, c, r, fault) ==
    IF fault = "api_access" \/ ~d.User.exists
    THEN [db |-> d, committed |-> c, api_key |-> PyNone, api_secret |-> PyNone,
          rng |-> r, hit |-> IF fault = "api_access" THEN 1 ELSE 0]
    ELSE
    LET api_key    == PyStr(generate_api_key(r))
        r1         == advance(r, API_KEY_LENGTH)
        api_secret == PyStr(generate_api_secret(r1))
        r2         == advance(r1, API_SECRET_LENGTH)
        d1 == [d EXCEPT !.User.api_key = api_key, !.User.api_secret = api_secret]
    IN  [db |-> d1, committed |-> Commit(d1), api_key |-> api_key,
         api_secret |-> api_secret, rng |-> r2, hit |-> 0]

\* r: the random source.  The result also holds the source afterwards.
setup_api_access(d, c, r, fault) ==
    IF fault = "api_access" \/ ~d.User.exists
    THEN \* except Exception: return None, None
         [db |-> d, committed |-> c, api_key |-> PyNone, api_secret |-> PyNone,
          rng |-> r, hit |-> IF fault = "api_access" THEN 1 ELSE 0]
    ELSE
    LET fresh_key  == Falsy(d.User.api_key)
        api_key    == IF fresh_key THEN PyStr(generate_api_key(r))
                                   ELSE d.User.api_key
        r1         == IF fresh_key THEN advance(r, API_KEY_LENGTH) ELSE r
        api_secret == PyStr(generate_api_secret(r1))
        r2         == advance(r1, API_SECRET_LENGTH)
        d1 == [d EXCEPT !.User.api_key = api_key, !.User.api_secret = api_secret]
    IN  [db |-> d1, committed |-> Commit(d1), api_key |-> api_key,
         api_secret |-> api_secret, rng |-> r2, hit |-> 0]

\* A variant of the roles loop that appends every required role.
RECURSIVE add_roles_always(_, _, _)
add_roles_always(st, i, fault) ==
    IF i > Len(required_roles) \/ st.raised THEN st
    ELSE
    LET role_name == required_roles[i]
        missing   == role_name \notin st.db.Role
    IN
    IF missing /\ fault = "role_insert"
    THEN [st EXCEPT !.raised = TRUE, !.hit = 1]
    ELSE
    LET d1 == IF missing THEN [st.db EXCEPT !.Role = @ \cup {role_name}]
                         ELSE st.db
    IN  add_roles_always([st EXCEPT !.db = d1,
                                    !.roles = Append(st.roles, role_name)],
                         i + 1, fault)

\* The roles loop: roles the user lacks are appended to the document, roles
\* that do not exist are inserted first.  st = [db, roles, raised, hit].
RECURSIVE add_roles(_, _, _)
add_roles(st, i, fault) ==
    IF i > Len(required_roles) \/ st.raised THEN st
    ELSE
    LET role_name == required_roles[i]
        missing   == role_name \notin st.db.Role
    IN
    IF missing /\ fault = "role_insert"
    THEN [st EXCEPT !.raised = TRUE, !.hit = 1]
    ELSE
    LET d1       == IF missing THEN [st.db EXCEPT !.Role = @ \cup {role_name}]
                               ELSE st.db
        \* frappe.db.exists("Has Role", {"parent": ..., "role": role_name})
        has_role == \E j \in 1..Len(d1.User.roles) : d1.User.roles[j] = role_name
        roles1   == IF has_role THEN st.roles ELSE Append(st.roles, role_name)
    IN  add_roles([st EXCEPT !.db = d1, !.roles = roles1], i + 1, fault)

PosUser(api_key, api_secret) ==
    [user |-> [email |-> POS_USER_EMAIL, api_key |-> api_key,
               api_secret |-> api_secret]]

create_pos_user(d, c, r, fault) ==
    LET out(d0, c0, ret, raised, hit, r0) ==
            [db |-> d0, committed |-> c0, ret |-> ret, raised |-> raised,
             hit |-> hit, rng |-> r0]
    IN
    IF ~d.User.exists /\ fault = "user_insert"
    THEN out(d, c, PyNone, TRUE, 1, r)
    ELSE
    LET d1 == IF d.User.exists THEN d
              ELSE [d EXCEPT !.User = [exists |-> TRUE, api_key |-> PyNone,
                                        api_secret |-> PyNone, roles |-> <<>>]]
        \* the User document in memory: user.roles as loaded or inserted
        st == add_roles([db |-> d1, roles |-> d1.User.roles, raised |-> FALSE,
                         hit |-> 0], 1, fault)
    IN
    IF st.raised THEN out(st.db, c, PyNone, TRUE, st.hit, r)
    ELSE
    IF fault = "user_save" THEN out(st.db, c, PyNone, TRUE, 1, r)
    ELSE
    LET d2  == [st.db EXCEPT !.User.roles = st.roles]     \* user.save()
        api == setup_api_access(d2, c, r, fault)
    IN  out(api.db, Commit(api.db), PosUser(api.api_key, api.api_secret),
            FALSE, api.hit, api.rng)

----------------------------------------------------------------------------
(* create_warehouse(company_name)                                          *)

create_warehouse(d, c, company_name, fault) ==
    LET warehouse_name == WarehouseName(WarehouseBase, FirstTwoUpper(company_name))
    IN
    IF warehouse_name \in WarehouseNames(d)
    THEN Result(d, c, PyStr(warehouse_name), FALSE, 0)
    ELSE
    LET found  == group_warehouse_of(d, company_name)
        parent == IF found = PyNone
                  THEN WarehouseName("All Warehouses", FirstTwoUpper(company_name))
                  ELSE found.str
        make_root == found = PyNone /\ parent \notin WarehouseNames(d)
        root_name == WarehouseAutoname(d, "All Warehouses", company_name)
    IN
    IF make_root /\ fault = "root_insert"
    THEN Result(d, c, PyNone, TRUE, 1)
    ELSE
    IF make_root /\ root_name \in WarehouseNames(d)
    THEN \* root.insert raises DuplicateEntryError
         Result(d, c, PyStr(warehouse_name), FALSE, 0)
    ELSE
    LET d1 == IF make_root
              THEN [d EXCEPT !.Warehouse = @ \cup
                       {[name |-> root_name, company |-> company_name,
                         is_group |-> TRUE]}]
              ELSE d
        name == WarehouseAutoname(d1, WarehouseBase, company_name)
    IN
    IF fault = "insert" THEN Result(d1, c, PyNone, TRUE, 1)
    ELSE
    IF parent \notin WarehouseNames(d1)
    THEN \* parent_warehouse links to no Warehouse: a validation error
         Result(d1, c, PyNone, TRUE, 0)
    ELSE
    IF name \in WarehouseNames(d1)
    THEN \* except frappe.DuplicateEntryError: return warehouse_name
         Result(d1, c, PyStr(warehouse_name), FALSE, 0)
    ELSE
    LET d2 == [d1 EXCEPT !.Warehouse = @ \cup
                  {[name |-> name, company |-> company_name, is_group |-> FALSE]}]
    IN  Result(d2, Commit(d2), PyStr(name), FALSE, 0)

----------------------------------------------------------------------------
(* create_price_list(), create_customer()                                  *)

\* A variant that leaves the commit to a later step.
create_price_list_uncommitted(d, c, fault) ==
    IF DEFAULT_PRICE_LIST \in d.PriceList
    THEN Result(d, c, PyStr(DEFAULT_PRICE_LIST), FALSE, 0)
    ELSE
    IF fault = "insert" THEN Result(d, c, PyNone, TRUE, 1)
    ELSE
    LET d1 == [d EXCEPT !.PriceList = @ \cup {DEFAULT_PRICE_LIST}]
    IN  Result(d1, c, PyStr(DEFAULT_PRICE_LIST), FALSE, 0)

create_price_list(d, c, fault) ==
    IF DEFAULT_PRICE_LIST \in d.PriceList
    THEN Result(d, c, PyStr(DEFAULT_PRICE_LIST), FALSE, 0)
    ELSE
    IF fault = "insert" THEN Result(d, c, PyNone, TRUE, 1)
    ELSE
    LET d1 == [d EXCEPT !.PriceList = @ \cup {DEFAULT_PRICE_LIST}]
    IN  Result(d1, Commit(d1), PyStr(DEFAULT_PRICE_LIST), FALSE, 0)

create_customer(d, c, fault) ==
    IF DEFAULT_CUSTOMER \in d.Customer
    THEN Result(d, c, PyStr(DEFAULT_CUSTOMER), FALSE, 0)
    ELSE
    IF fault = "insert" THEN Result(d, c, PyNone, TRUE, 1)
    ELSE
    LET d1 == [d EXCEPT !.Customer = @ \cup {DEFAULT_CUSTOMER}]
    IN  Result(d1, Commit(d1), PyStr(DEFAULT_CUSTOMER), FALSE, 0)

----------------------------------------------------------------------------
(* create_pos_profile(company_name, warehouse_name, price_list_name)       *)

\* A variant that lets the exception out.
create_pos_profile_raising(d, c, company_name, warehouse_name, price_list_name, fault) ==
    IF DEFAULT_POS_PROFILE \in d.POSProfile
    THEN Result(d, c, PyStr(DEFAULT_POS_PROFILE), FALSE, 0)
    ELSE
    IF fault = "insert" THEN Result(d, c, PyNone, TRUE, 1)
    ELSE
    IF warehouse_name \notin WarehouseNames(d)
    THEN Result(d, c, PyNone, TRUE, 0)
    ELSE
    LET d1 == [d EXCEPT !.POSProfile = @ \cup {DEFAULT_POS_PROFILE}]
    IN  Result(d1, Commit(d1), PyStr(DEFAULT_POS_PROFILE), FALSE, 0)

create_pos_profile(d, c, company_name, warehouse_name, price_list_name, fault) ==
    IF DEFAULT_POS_PROFILE \in d.POSProfile
    THEN Result(d, c, PyStr(DEFAULT_POS_PROFILE), FALSE, 0)
    ELSE
    IF fault = "insert"
    THEN \* except Exception: return None
         Result(d, c, PyNone, FALSE, 1)
    ELSE
    IF warehouse_name \notin WarehouseNames(d)
    THEN \* warehouse links to no Warehouse: a validation error, return None
         Result(d, c, PyNone, FALSE, 0)
    ELSE
    LET d1 == [d EXCEPT !.POSProfile = @ \cup {DEFAULT_POS_PROFILE}]
    IN  Result(d1, Commit(d1), PyStr(DEFAULT_POS_PROFILE), FALSE, 0)

----------------------------------------------------------------------------
(* create_stock_entry and create_sample_items                              *)

\* Every exception is logged and dropped: the entry is made or it is not.
create_stock_entry(d, item_code, warehouse, fault) ==
    IF fault = "stock" \/ warehouse \notin WarehouseNames(d) THEN d
    ELSE [d EXCEPT !.StockEntry = @ \cup {item_code}]

ItemFaults == {"none", "item_insert", "price_insert", "stock"}

SampleItem(item_code, barcode, exists) ==
    [item_code |-> item_code, barcode |-> barcode, exists |-> exists]

\* The loop over SAMPLE_ITEMS from item i on.  st = [db, created_items, hit];
\* item_faults gives, per item code, the framework call that raises for it.
RECURSIVE sample_items_loop(_, _, _, _, _)
sample_items_loop(st, i, warehouse_name, price_list_name, item_faults) ==
    IF i > Len(SAMPLE_ITEMS) THEN st
    ELSE
    LET item_data == SAMPLE_ITEMS[i]
        item_code == item_data.item_code
        fault     == item_faults[item_code]
        next(st1) == sample_items_loop(st1, i + 1, warehouse_name,
                                       price_list_name, item_faults)
    IN
    IF item_code \in st.db.Item
    THEN next([st EXCEPT !.created_items =
                  Append(@, SampleItem(item_code, item_data.barcode, TRUE))])
    ELSE
    IF fault = "item_insert" THEN next([st EXCEPT !.hit = @ + 1])
    ELSE
    IF "Products" \notin st.db.ItemGroup
    THEN \* item_group links to no Item Group: a validation error
         next(st)
    ELSE
    LET d1 == [st.db EXCEPT !.Item = @ \cup {item_code}] IN
    IF fault = "price_insert" THEN next([st EXCEPT !.db = d1, !.hit = @ + 1])
    ELSE
    LET d2 == [d1 EXCEPT !.ItemPrice = Append(@, [item_code |-> item_code,
                                                 price_list |-> price_list_name])]
        d3 == create_stock_entry(d2, item_code, warehouse_name, fault)
    IN  next([db |-> d3,
              created_items |-> Append(st.created_items,
                                  SampleItem(item_code, item_data.barcode, FALSE)),
              hit |-> st.hit + (IF fault = "stock" THEN 1 ELSE 0)])

create_sample_items(d, c, company_name, warehouse_name, price_list_name, group_fault, item_faults) ==
    LET make_group == "Products" \notin d.ItemGroup
        d1 == IF make_group /\ ~group_fault
              THEN [d EXCEPT !.ItemGroup = @ \cup {"Products"}]
              ELSE d
        st == sample_items_loop(
                  [db |-> d1, created_items |-> <<>>,
                   hit |-> IF make_group /\ group_fault THEN 1 ELSE 0],
                  1, warehouse_name, price_list_name, item_faults)
    IN  Result(st.db, Commit(st.db), PyList(st.created_items), FALSE, st.hit)

----------------------------------------------------------------------------
(* save_credentials(credentials_data) and main()                           *)

NoCredFile == [exists |-> FALSE]

\* now: datetime.now(), counted in runs of main.  The date is stored in the
\* caller's dict before the file is opened; an exception (fault) is printed
\* and dropped.  Returns the file and the dict afterwards.
save_credentials(file, credentials_data, now, fault) ==
    LET dated == [credentials_data EXCEPT !.generated_date = now] IN
    IF fault = "write"
    THEN [file |-> file, credentials |-> dated, hit |-> 1]
    ELSE [file |-> [exists |-> TRUE, content |-> dated],
          credentials |-> dated, hit |-> 0]

NoLocals ==
    [company_name |-> PyNone, pos_user |-> PyNone, warehouse_name |-> PyNone,
     price_list_name |-> PyNone, customer_name |-> PyNone,
     pos_profile_name |-> PyNone, sample_items |-> PyNone]

\* The steps of main(), in order.
MainSteps ==
    <<"create_company", "create_pos_user", "create_warehouse",
      "create_price_list", "create_customer", "create_pos_profile",
      "create_sample_items", "save_credentials">>

\* The records of the seeded doctypes in the database.
RecordCount(d) ==
    Len(d.Company) + (IF d.User.exists THEN 1 ELSE 0) + Cardinality(d.Role)
    + Cardinality(d.Warehouse) + Cardinality(d.PriceList)
    + Cardinality(d.Customer) + Cardinality(d.POSProfile)
    + Cardinality(d.Item) + Len(d.ItemPrice)

NoRun == [steps |-> <<>>, hits |-> 0, soft |-> {}, start_count |-> 0]
NewRun(d) == [NoRun EXCEPT !.start_count = RecordCount(d)]

\* Bounds of the model: runs of main, exceptions raised by the framework.
MaxRuns   == 2
MaxFaults == 1

\* A variant of the handler without the rollback.
main_except_no_rollback(d, c) == [db |-> d, rolled_back |-> FALSE]

\* except Exception in main: frappe.db.rollback(), then raise
main_except(d, c) == [db |-> Rollback(c), rolled_back |-> TRUE]

RunRecord(outcome, step, c, hits, credentials, d, rolled_back) ==
    [index |-> Len(runs) + 1, outcome |-> outcome, raised_in |-> step,
     steps |-> c.steps, soft |-> c.soft, hits |-> hits,
     credentials |-> credentials,
     inserted |-> RecordCount(d) - c.start_count, rolled_back |-> rolled_back]

\* A step of main returned: main goes on to the next one.
Proceed(step, next_pc, c, r, new_locals, soft) ==
    /\ db' = r.db
    /\ committed' = r.committed
    /\ pc' = next_pc
    /\ locals' = new_locals
    /\ cur' = [c EXCEPT !.steps = Append(@, step), !.hits = @ + r.hit,
                        !.soft = @ \cup soft]
    /\ faults' = faults + r.hit
    /\ UNCHANGED <<runs, cred_file>>

\* A step of main raised: the handler of main runs and main raises.
Abort(step, c, r) ==
    LET h  == main_except(r.db, r.committed)
        c1 == [c EXCEPT !.steps = Append(@, step)]
    IN
    /\ db' = h.db
    /\ committed' = r.committed
    /\ pc' = "idle"
    /\ locals' = NoLocals
    /\ cur' = NoRun
    /\ runs' = Append(runs, RunRecord("raised", step, c1, c.hits + r.hit,
                                      PyNone, h.db, h.rolled_back))
    /\ faults' = faults + r.hit
    /\ UNCHANGED cred_file

MayFail(fault) == fault # "none" => faults < MaxFaults

\* [1/8]: main() starts and calls create_company()
Main_create_company ==
    /\ pc = "idle"
    /\ Len(runs) < MaxRuns
    /\ \E fault \in {"none", "get_all", "insert"}, defaults \in BOOLEAN :
        /\ MayFail(fault)
        /\ LET r == create_company(db, committed, fault, defaults) IN
           IF r.raised THEN Abort("create_company", NewRun(db), r)
           ELSE Proceed("create_company", "create_pos_user", NewRun(db), r,
                        [NoLocals EXCEPT !.company_name = r.ret], {})
    /\ UNCHANGED <<cors_vars, key_vars>>

\* [2/8]
Main_create_pos_user ==
    /\ pc = "create_pos_user"
    /\ \E fault \in {"none", "user_insert", "role_insert", "user_save",
                     "api_access"} :
        /\ MayFail(fault)
        /\ LET r == create_pos_user(db, committed, rng, fault) IN
           /\ IF r.raised THEN Abort("create_pos_user", cur, r)
              ELSE Proceed("create_pos_user", "create_warehouse", cur, r,
                           [locals EXCEPT !.pos_user = r.ret],
                           IF r.ret.user.api_key = PyNone
                           THEN {"setup_api_access"} ELSE {})
           /\ rng' = r.rng
    /\ UNCHANGED <<cors_vars, generated>>

\* [3/8]
Main_create_warehouse ==
    /\ pc = "create_warehouse"
    /\ \E fault \in {"none", "root_insert", "insert"} :
        /\ MayFail(fault)
        /\ LET r == create_warehouse(db, committed, locals.company_name.str,
                                     fault) IN
           IF r.raised THEN Abort("create_warehouse", cur, r)
           ELSE Proceed("create_warehouse", "create_price_list", cur, r,
                        [locals EXCEPT !.warehouse_name = r.ret], {})
    /\ UNCHANGED <<cors_vars, key_vars>>

\* [4/8]
Main_create_price_list ==
    /\ pc = "create_price_list"
    /\ \E fault \in {"none", "insert"} :
        /\ MayFail(fault)
        /\ LET r == create_price_list(db, committed, fault) IN
           IF r.raised THEN Abort("create_price_list", cur, r)
           ELSE Proceed("create_price_list", "create_customer", cur, r,
                        [locals EXCEPT !.price_list_name = r.ret], {})
    /\ UNCHANGED <<cors_vars, key_vars>>

\* [5/8]
Main_create_customer ==
    /\ pc = "create_customer"
    /\ \E fault \in {"none", "insert"} :
        /\ MayFail(fault)
        /\ LET r == create_customer(db, committed, fault) IN
           IF r.raised THEN Abort("create_customer", cur, r)
           ELSE Proceed("create_customer", "create_pos_profile", cur, r,
                        [locals EXCEPT !.customer_name = r.ret], {})
    /\ UNCHANGED <<cors_vars, key_vars>>

\* [6/8]
Main_create_pos_profile ==
    /\ pc = "create_pos_profile"
    /\ \E fault \in {"none", "insert"} :
        /\ MayFail(fault)
        /\ LET r == create_pos_profile(db, committed, locals.company_name.str,
                                       locals.warehouse_name.str,
                                       locals.price_list_name.str, fault) IN
           IF r.raised THEN Abort("create_pos_profile", cur, r)
           ELSE Proceed("create_pos_profile", "create_sample_items", cur, r,
                        [locals EXCEPT !.pos_profile_name = r.ret],
                        IF r.ret = PyNone THEN {"create_pos_profile"} ELSE {})
    /\ UNCHANGED <<cors_vars, key_vars>>

ItemCodes == {SAMPLE_ITEMS[i].item_code : i \in 1..Len(SAMPLE_ITEMS)}

\* [7/8]
Main_create_sample_items ==
    /\ pc = "create_sample_items"
    /\ \E group_fault \in BOOLEAN, item_faults \in [ItemCodes -> ItemFaults] :
        /\ Cardinality({i \in ItemCodes : item_faults[i] # "none"})
              + (IF group_fault THEN 1 ELSE 0) <= MaxFaults - faults
        /\ LET r == create_sample_items(db, committed, locals.company_name.str,
                                        locals.warehouse_name.str,
                                        locals.price_list_name.str,
                                        group_fault, item_faults) IN
           Proceed("create_sample_items", "save_credentials", cur, r,
                   [locals EXCEPT !.sample_items = r.ret], {})
    /\ UNCHANGED <<cors_vars, key_vars>>

\* The credentials dict main builds.
Credentials ==
    [generated_date |-> 0,
     pos_user |-> locals.pos_user,
     pos_profile |-> [name |-> locals.pos_profile_name,
                      warehouse |-> locals.warehouse_name,
                      price_list |-> locals.price_list_name,
                      company |-> locals.company_name],
     default_customer |-> locals.customer_name,
     sample_items |-> locals.sample_items]

\* [8/8]: save_credentials, the final summary, return credentials.  The
\* summary prints pos_user['api_secret'][:10], which raises TypeError when
\* api_secret is None.
Main_save_credentials ==
    /\ pc = "save_credentials"
    /\ \E fault \in {"none", "write"} :
        /\ MayFail(fault)
        /\ LET now == Len(runs) + 1
               s   == save_credentials(cred_file, Credentials, now, fault)
               c1  == [cur EXCEPT !.steps = Append(@, "save_credentials")]
               summary_raises == locals.pos_user.user.api_secret = PyNone
               h   == main_except(db, committed)
           IN
           /\ cred_file' = s.file
           /\ faults' = faults + s.hit
           /\ pc' = "idle"
           /\ locals' = NoLocals
           /\ cur' = NoRun
           /\ committed' = committed
           /\ IF summary_raises
              THEN /\ db' = h.db
                   /\ runs' = Append(runs, RunRecord("raised", "summary", c1,
                                        cur.hits + s.hit, PyNone, h.db,
                                        h.rolled_back))
              ELSE /\ db' = db
                   /\ runs' = Append(runs, RunRecord("returned", "none", c1,
                                        cur.hits + s.hit,
                                        [credentials |-> s.credentials], db,
                                        FALSE))
    /\ UNCHANGED <<cors_vars, key_vars>>

----------------------------------------------------------------------------
(* The databases main() may find.                                          *)

Acme   == <<"A","c","m","e">>
Globex == <<"G","l","o","b","e","x">>

RootWarehouse(company) ==
    [name |-> WarehouseName("All Warehouses", company.abbr),
     company |-> company.name, is_group |-> TRUE]

\* No company, or one company with or without its root warehouse: Acme's
\* abbreviation is the first two letters of its name, Globex's is not.
InitCompanies ==
    {[Company |-> <<>>, Warehouse |-> {}]} \cup
    UNION {{[Company |-> <<co>>, Warehouse |-> {}],
            [Company |-> <<co>>, Warehouse |-> {RootWarehouse(co)}]} :
              co \in {[name |-> Acme, abbr |-> <<"A","C">>],
                      [name |-> Globex, abbr |-> <<"G","X">>]}}

NoUser == [exists |-> FALSE, api_key |-> PyNone, api_secret |-> PyNone,
           roles |-> <<>>]

\* The roles a POS user left by an earlier setup may hold, as stored.
InitUserRoles ==
    {<<"Sales User">>,
     <<"Item Manager", "POS User">>,
     <<"Stock User", "Sales User", "POS User", "Item Manager">>}

\* A site nobody has set up, and sites with the standard roles and price
\* list, a POS user holding some roles and an API key, and one sample item.
InitMasters ==
    {[User |-> NoUser, Role |-> {}, PriceList |-> {}, ItemGroup |-> {},
      Item |-> {}, ItemPrice |-> <<>>]} \cup
    {[User |-> [exists |-> TRUE, api_key |-> PyStr(<<"k","e","y">>),
                api_secret |-> PyStr(<<"o","l","d">>),
                roles |-> held],
      Role |-> {"Sales User", "Stock User", "Item Manager"}
                  \cup {held[j] : j \in 1..Len(held)},
      PriceList |-> {DEFAULT_PRICE_LIST}, ItemGroup |-> {"Products"},
      Item |-> {"ITEM-002"},
      ItemPrice |-> <<[item_code |-> "ITEM-002",
                       price_list |-> DEFAULT_PRICE_LIST]>>] :
        held \in InitUserRoles}

InitDbs ==
    {[Company |-> co.Company, Warehouse |-> co.Warehouse, User |-> ma.User,
      Role |-> ma.Role, PriceList |-> ma.PriceList, Customer |-> {},
      POSProfile |-> {}, ItemGroup |-> ma.ItemGroup, Item |-> ma.Item,
      ItemPrice |-> ma.ItemPrice, StockEntry |-> {}] :
        co \in InitCompanies, ma \in InitMasters}

PosInit ==
    /\ db \in InitDbs
    /\ committed = db
    /\ pc = "idle"
    /\ locals = NoLocals
    /\ cred_file = NoCredFile
    /\ faults = 0
    /\ cur = NoRun
    /\ runs = <<>>

PosIdle ==
    /\ db = CHOOSE d \in InitDbs : Len(d.Company) = 0 /\ ~d.User.exists
    /\ committed = db
    /\ pc = "idle"
    /\ locals = NoLocals
    /\ cred_file = NoCredFile
    /\ faults = 0
    /\ cur = NoRun
    /\ runs = <<>>

PosNext ==
    \/ Main_create_company
    \/ Main_create_pos_user
    \/ Main_create_warehouse
    \/ Main_create_price_list
    \/ Main_create_customer
    \/ Main_create_pos_profile
    \/ Main_create_sample_items
    \/ Main_save_credentials

----------------------------------------------------------------------------
(* cors_config.add_cors_headers, after_request, cors_middleware            *)

ACAO == "Access-Control-Allow-Origin"

CORS_HEADERS ==
    (ACAO :> "*") @@
    ("Access-Control-Allow-Methods" :> "GET, POST, PUT, DELETE, OPTIONS, PATCH") @@
    ("Access-Control-Allow-Headers" :>
        "Content-Type, Authorization, X-Frappe-CSRF-Token, X-Frappe-Site-Name") @@
    ("Access-Control-Allow-Credentials" :> "true") @@
    ("Access-Control-Max-Age" :> "86400")

\* A response object: its headers, by name.
ResponseOf(headers) == [headers |-> headers]

\* werkzeug's Response(): an empty body with the default content type.
Response == ResponseOf("Content-Type" :> "text/plain; charset=utf-8")

\* A variant that keeps a header the response already carries.
add_cors_headers_setdefault(response) ==
    IF response # PyNone
    THEN ResponseOf([h \in (DOMAIN response.headers) \cup (DOMAIN CORS_HEADERS) |->
                        IF h \in DOMAIN response.headers
                        THEN response.headers[h]
                        ELSE CORS_HEADERS[h]])
    ELSE response

\* add_cors_headers(response): response.headers[header] = value for each of
\* CORS_HEADERS when a response is given; the operator yields the response
\* afterwards (the dict the function returns is dropped by both callers).
add_cors_headers(response) ==
    IF response # PyNone
    THEN ResponseOf([h \in (DOMAIN response.headers) \cup (DOMAIN CORS_HEADERS) |->
                        IF h \in DOMAIN CORS_HEADERS
                        THEN CORS_HEADERS[h]
                        ELSE response.headers[h]])
    ELSE response

after_request(response) == add_cors_headers(response)

\* The function cors_middleware(get_response) builds, applied to a request;
\* inner is what get_response(request) returns.
middleware(request, inner) ==
    IF request.method = "OPTIONS"
    THEN add_cors_headers(Response)
    ELSE add_cors_headers(inner)

Methods == {"OPTIONS", "GET", "POST"}

\* The origins the framework may itself put on a response: those stored
\* under allow_cors in site_config.json.
StoredOrigins(file) ==
    IF file.exists /\ file.text.wf /\ IsDict(file.text.doc)
       /\ "allow_cors" \in DOMAIN file.text.doc.dict
    THEN LET v == file.text.doc.dict["allow_cors"] IN
         IF DOMAIN v = {"str"} THEN {v.str}
         ELSE IF IsList(v) THEN {v.list[i] : i \in 1..Len(v.list)}
         ELSE {}
    ELSE {}

\* What the wrapped application or the framework hands over: nothing, a
\* response without CORS headers, or one that already carries its own.
InnerResponses(file) ==
    {PyNone, ResponseOf("Content-Type" :> "application/json")} \cup
    {ResponseOf(("Content-Type" :> "application/json") @@ (ACAO :> o) @@
                ("Access-Control-Max-Age" :> "600")) : o \in StoredOrigins(file)}

NoRequest == [method |-> "none"]

HttpCall(op, request, given, response) ==
    [op |-> op, request |-> request, given |-> given, response |-> response]

NoHttp == HttpCall("none", NoRequest, PyNone, PyNone)

----------------------------------------------------------------------------
(* The calls of cors_config.py as actions.                                 *)

\* Argument values tried.
Origins          == {PyStr("*"), PyList(<<"https://pos.example.com">>)}
RateLimits       == {1000, 50}
RateLimitWindows == {3600, 60}

NoStatus == ConfigStatus(FALSE, FALSE, FALSE, PyNone)

\* The record of a call: rets holds the values returned by the calls it made
\* itself (setup_for_tailpos), pre the file before the call.
CorsCallOf(op, origins, rate_limit, rate_limit_window, ret, wrote, status, rets) ==
    [op |-> op, origins |-> origins, rate_limit |-> rate_limit,
     rate_limit_window |-> rate_limit_window, ret |-> ret, wrote |-> wrote,
     pre |-> site_config, status |-> status, rets |-> rets]

CorsCall(op, origins, rate_limit, rate_limit_window, ret, wrote, status) ==
    CorsCallOf(op, origins, rate_limit, rate_limit_window, ret, wrote, status,
               <<>>)

Call_enable_cors ==
    \E origins \in Origins :
        LET r == enable_cors(site_config, local_conf, origins) IN
        /\ site_config' = r.file
        /\ local_conf' = r.lc
        /\ cors_call' = CorsCall("enable_cors", origins, 0, 0, r.ret, r.wrote,
                                 NoStatus)
        /\ http' = NoHttp
        /\ UNCHANGED <<system_settings, key_vars, pos_vars>>

Call_configure_api_settings ==
    \E rate_limit \in RateLimits, rate_limit_window \in RateLimitWindows,
       ss_fails \in BOOLEAN :
        LET r == configure_api_settings(site_config, rate_limit,
                                        rate_limit_window) IN
        /\ site_config' = r.file
        /\ system_settings' = IF r.ss
                              THEN update_system_settings(system_settings, ss_fails)
                              ELSE system_settings
        /\ cors_call' = CorsCall("configure_api_settings", PyNone, rate_limit,
                                 rate_limit_window, r.ret, r.wrote, NoStatus)
        /\ http' = NoHttp
        /\ UNCHANGED <<local_conf, key_vars, pos_vars>>

Call_disable_csrf ==
    LET r == disable_csrf(site_config) IN
    /\ site_config' = r.file
    /\ cors_call' = CorsCall("disable_csrf", PyNone, 0, 0, r.ret, r.wrote,
                             NoStatus)
    /\ http' = NoHttp
    /\ UNCHANGED <<local_conf, system_settings, key_vars, pos_vars>>

Call_check_cors_config ==
    /\ cors_call' = CorsCall("check_cors_config", PyNone, 0, 0, TRUE, FALSE,
                             check_cors_config(site_config))
    /\ http' = NoHttp
    /\ UNCHANGED <<site_config, local_conf, system_settings, key_vars, pos_vars>>

\* One call made by setup_for_tailpos and the value it returned.
Called(fn, ret) == [fn |-> fn, ret |-> ret]

\* A variant that stops as soon as enable_cors has returned False.
setup_for_tailpos_short(file, lc) ==
    LET r1 == enable_cors(file, lc, PyStr("*")) IN
    IF ~r1.ret
    THEN [file |-> r1.file, lc |-> r1.lc, ret |-> FALSE, wrote |-> r1.wrote,
          ss |-> FALSE, status |-> NoStatus,
          rets |-> <<Called("enable_cors", r1.ret)>>]
    ELSE
    LET r2 == configure_api_settings(r1.file, 1000, 3600)
        st == check_cors_config(r2.file)
    IN  [file |-> r2.file, lc |-> r1.lc, ret |-> r2.ret,
         wrote |-> r1.wrote \/ r2.wrote, ss |-> r2.ss, status |-> st,
         rets |-> <<Called("enable_cors", r1.ret),
                    Called("configure_api_settings", r2.ret),
                    Called("check_cors_config", st)>>]

\* setup_for_tailpos(): enable_cors("*"), configure_api_settings(1000) and
\* check_cors_config() are called in turn, whatever the first two return;
\* rate_limit_window takes its default.
setup_for_tailpos(file, lc) ==
    LET r1 == enable_cors(file, lc, PyStr("*"))
        s1 == IF ~r1.ret THEN FALSE ELSE TRUE
        r2 == configure_api_settings(r1.file, 1000, 3600)
        success == IF ~r2.ret THEN FALSE ELSE s1
        st == check_cors_config(r2.file)
    IN  [file |-> r2.file, lc |-> r1.lc, ret |-> success,
         wrote |-> r1.wrote \/ r2.wrote, ss |-> r2.ss, status |-> st,
         rets |-> <<Called("enable_cors", r1.ret),
                    Called("configure_api_settings", r2.ret),
                    Called("check_cors_config", st)>>]

Call_setup_for_tailpos ==
    \E ss_fails \in BOOLEAN :
        LET r == setup_for_tailpos(site_config, local_conf) IN
        /\ site_config' = r.file
        /\ local_conf' = r.lc
        /\ system_settings' = IF r.ss
                              THEN update_system_settings(system_settings, ss_fails)
                              ELSE system_settings
        /\ cors_call' = CorsCallOf("setup_for_tailpos", PyStr("*"), 1000, 3600,
                                   r.ret, r.wrote, r.status, r.rets)
        /\ http' = NoHttp
        /\ UNCHANGED <<key_vars, pos_vars>>

Call_after_request ==
    \E response \in InnerResponses(site_config) :
        /\ http' = HttpCall("after_request", NoRequest, response,
                            after_request(response))
        /\ cors_call' = CorsCall("after_request", PyNone, 0, 0, TRUE, FALSE,
                                 NoStatus)
        /\ UNCHANGED <<site_config, local_conf, system_settings>>
        /\ UNCHANGED <<key_vars, pos_vars>>

Call_cors_middleware ==
    \E method \in Methods, inner \in InnerResponses(site_config) :
        LET request == [method |-> method] IN
        /\ http' = HttpCall("middleware", request,
                            IF method = "OPTIONS" THEN PyNone ELSE inner,
                            middleware(request, inner))
        /\ cors_call' = CorsCall("cors_middleware", PyNone, 0, 0, TRUE, FALSE,
                                 NoStatus)
        /\ UNCHANGED <<site_config, local_conf, system_settings>>
        /\ UNCHANGED <<key_vars, pos_vars>>

----------------------------------------------------------------------------
(* The states site_config.json can be in before the first call.            *)

ApiSubKeys == {"enable_api", "rate_limit", "custom_throttle"}

InitApiValue(k) ==
    CASE k = "enable_api"      -> PyInt(0)
      [] k = "rate_limit"      -> PyInt(10)
      [] k = "custom_throttle" -> PyInt(7)

InitApiSettings ==
    {PyInt(0)} \cup
    {PyDict([k \in ks |-> InitApiValue(k)]) : ks \in SUBSET ApiSubKeys}

TopKeys == {"db_name", "allow_cors", "ignore_csrf", "api_settings"}

InitTopValues(k) ==
    CASE k = "db_name"        -> {PyStr("site1")}
      [] k = "allow_cors"     -> {PyStr("https://old.example.com")}
      [] k = "ignore_csrf"    -> {PyInt(0), PyInt(1)}
      [] k = "api_settings"   -> InitApiSettings

InitConfigs ==
    UNION {{d \in [ks -> UNION {InitTopValues(k) : k \in ks}] :
               \A k \in ks : d[k] \in InitTopValues(k)} : ks \in SUBSET TopKeys}

InitFiles ==
    {NoFile, FileOf(Garbage), FileOf(json_dump(PyList(<<>>)))} \cup
    {FileOf(json_dump(PyDict(d))) : d \in InitConfigs}

CorsInit ==
    /\ site_config \in InitFiles
    /\ local_conf \in {PyNone, PyDict(EmptyDict)}
    /\ system_settings \in {[has_enable_api |-> h, enable_api |-> 0] : h \in BOOLEAN}
    /\ cors_call = CorsCall("none", PyNone, 0, 0, FALSE, FALSE, NoStatus)
    /\ http = NoHttp

CorsNext ==
    \/ Call_enable_cors
    \/ Call_configure_api_settings
    \/ Call_disable_csrf
    \/ Call_check_cors_config
    \/ Call_setup_for_tailpos
    \/ Call_after_request
    \/ Call_cors_middleware

vars == <<cors_vars, key_vars, pos_vars>>

\* Outside its own specification a part of the state stays as constructed.
CorsIdle ==
    /\ site_config = NoFile
    /\ local_conf = PyNone
    /\ system_settings = [has_enable_api |-> FALSE, enable_api |-> 0]
    /\ cors_call = CorsCall("none", PyNone, 0, 0, FALSE, FALSE, NoStatus)
    /\ http = NoHttp

KeysIdle ==
    /\ rng = [pos |-> 0, stride |-> 1]
    /\ generated = NoString

InitCors ==
    /\ CorsInit
    /\ KeysIdle
    /\ PosIdle

InitKeys ==
    /\ KeysInit
    /\ CorsIdle
    /\ PosIdle

Init ==
    /\ PosInit
    /\ CorsIdle
    /\ KeysIdle

SpecCors == InitCors /\ [][CorsNext]_vars

SpecKeys == InitKeys /\ [][KeysNext]_vars

Next == PosNext

Spec == Init /\ [][Next]_vars

----------------------------------------------------------------------------
(* Properties of cors_config.py, checked under SpecCors.                   *)

\* The top-level keys of a site_config.json and their values: those of the
\* JSON object it holds, none when it is absent, unparseable or no object.
TopLevel(file) ==
    IF file.exists /\ file.text.wf /\ IsDict(file.text.doc)
    THEN file.text.doc.dict
    ELSE EmptyDict

WellFormed(file) == file.exists /\ file.text.wf /\ IsDict(file.text.doc)

\* The api_settings object of a site_config.json, empty when there is none.
ApiSettings(file) ==
    LET top == TopLevel(file) IN
    IF "api_settings" \in DOMAIN top /\ IsDict(top["api_settings"])
    THEN top["api_settings"].dict
    ELSE EmptyDict

\* The top-level keys each operation assigns.
AssignedKeys(op) ==
    CASE op = "enable_cors"            -> {"allow_cors", "ignore_csrf", "api_settings"}
      [] op = "configure_api_settings" -> {"api_settings"}
      [] op = "disable_csrf"           -> {"ignore_csrf"}
      [] OTHER                         -> {}

MutatingOps == {"enable_cors", "configure_api_settings", "disable_csrf"}

\* C2: after enable_cors, configure_api_settings or disable_csrf on an
\* existing well-formed site_config.json, every top-level key the operation
\* does not assign is still present with the value it had before the call,
\* and the file is still well-formed; this holds after every call of every
\* sequence of calls.
C2_UnrelatedKeysPreserved ==
    (cors_call.op \in MutatingOps /\ WellFormed(cors_call.pre)) =>
        /\ WellFormed(site_config)
        /\ \A k \in (DOMAIN TopLevel(cors_call.pre)) \ AssignedKeys(cors_call.op) :
              /\ k \in DOMAIN TopLevel(site_config)
              /\ TopLevel(site_config)[k] = TopLevel(cors_call.pre)[k]

\* C2 witness: disable_csrf has rewritten a file that held db_name,
\* allow_cors and api_settings next to an ignore_csrf of 0.
C2_Witness ==
    /\ cors_call.op = "disable_csrf"
    /\ cors_call.wrote
    /\ {"db_name", "allow_cors", "api_settings", "ignore_csrf"}
          \subseteq DOMAIN TopLevel(cors_call.pre)
    /\ TopLevel(cors_call.pre)["ignore_csrf"] = PyInt(0)
    /\ TopLevel(site_config)["ignore_csrf"] = PyInt(1)

ApiParameterKeys ==
    {"enable_api", "allow_api_key_authentication", "rate_limit",
     "rate_limit_window"}

\* C3 (as claimed): configure_api_settings sets the four API parameters
\* inside api_settings and every other sub-key api_settings held before the
\* call is still there with the same value.
C3_ApiSubKeysPreserved ==
    (cors_call.op = "configure_api_settings" /\ cors_call.wrote) =>
        /\ \A k \in ApiParameterKeys : k \in DOMAIN ApiSettings(site_config)
        /\ \A k \in (DOMAIN ApiSettings(cors_call.pre)) \ ApiParameterKeys :
              /\ k \in DOMAIN ApiSettings(site_config)
              /\ ApiSettings(site_config)[k] = ApiSettings(cors_call.pre)[k]

\* C9: enable_cors(origins) returns True exactly when site_config.json
\* existed and has been rewritten with allow_cors = origins, ignore_csrf = 1,
\* api_settings.enable_api = 1 and allow_api_key_authentication = 1; when
\* the file does not exist it returns False and there is still no file.
C9_Rewritten ==
    /\ cors_call.pre.exists
    /\ cors_call.wrote
    /\ WellFormed(site_config)
    /\ DictGet(TopLevel(site_config), "allow_cors", PyNone) = cors_call.origins
    /\ DictGet(TopLevel(site_config), "ignore_csrf", PyNone) = PyInt(1)
    /\ DictGet(ApiSettings(site_config), "enable_api", PyNone) = PyInt(1)
    /\ DictGet(ApiSettings(site_config), "allow_api_key_authentication", PyNone)
          = PyInt(1)

C9_EnableCorsResult ==
    cors_call.op = "enable_cors" =>
        /\ cors_call.ret <=> C9_Rewritten
        /\ ~cors_call.pre.exists => (~cors_call.ret /\ ~site_config.exists)

\* C9 witness: enable_cors with a list of origins returned True on a file
\* whose api_settings already held a sub-key of its own.
C9_Witness ==
    /\ cors_call.op = "enable_cors"
    /\ cors_call.ret
    /\ IsList(cors_call.origins)
    /\ "custom_throttle" \in DOMAIN ApiSettings(cors_call.pre)
    /\ "custom_throttle" \in DOMAIN ApiSettings(site_config)

\* C10 (as claimed): configure_api_settings returns True only when
\* site_config.json afterwards holds api_settings.rate_limit = rate_limit and
\* api_settings.rate_limit_window = rate_limit_window; in particular not
\* when the file does not exist.
C10_TrueOnlyOnSuccess ==
    (cors_call.op = "configure_api_settings" /\ cors_call.ret) =>
        /\ site_config.exists
        /\ DictGet(ApiSettings(site_config), "rate_limit", PyNone)
              = PyInt(cors_call.rate_limit)
        /\ DictGet(ApiSettings(site_config), "rate_limit_window", PyNone)
              = PyInt(cors_call.rate_limit_window)

\* The calls setup_for_tailpos made, by name of the function called.
CallsMade == [i \in 1..Len(cors_call.rets) |-> cors_call.rets[i].fn]

\* C11: setup_for_tailpos always calls enable_cors, configure_api_settings
\* and check_cors_config, in this order, also when enable_cors returned
\* False; it returns True if and only if enable_cors and
\* configure_api_settings both returned True; and whenever it returns True,
\* site_config.json holds allow_cors = "*", ignore_csrf = 1 and api_settings
\* equal to exactly {enable_api: 1, allow_api_key_authentication: 1,
\* rate_limit: 1000, rate_limit_window: 3600}.
C11_SetupForTailpos ==
    cors_call.op = "setup_for_tailpos" =>
        /\ CallsMade = <<"enable_cors", "configure_api_settings",
                         "check_cors_config">>
        /\ cors_call.ret <=> (cors_call.rets[1].ret /\ cors_call.rets[2].ret)
        /\ cors_call.ret =>
              /\ WellFormed(site_config)
              /\ DictGet(TopLevel(site_config), "allow_cors", PyNone) = PyStr("*")
              /\ DictGet(TopLevel(site_config), "ignore_csrf", PyNone) = PyInt(1)
              /\ DictGet(TopLevel(site_config), "api_settings", PyNone)
                    = PyDict(api_parameters(1000, 3600))

\* C11 witness: enable_cors returned False on a file whose api_settings was
\* no object, and configure_api_settings, called all the same, has stored
\* the four API parameters.
C11_Witness ==
    /\ cors_call.op = "setup_for_tailpos"
    /\ Len(cors_call.rets) = 3
    /\ ~cors_call.rets[1].ret
    /\ cors_call.rets[2].ret
    /\ ~cors_call.ret
    /\ cors_call.pre.exists
    /\ ApiSettings(site_config) = api_parameters(1000, 3600)

\* C12: every response returned by after_request or by the function
\* cors_middleware builds, for OPTIONS and for any other method, carries the
\* five Access-Control-* headers with the values of CORS_HEADERS, whatever
\* allow_cors is stored in site_config.json, whatever headers the response
\* carried before and whatever configuration calls came before.
C12_StaticCorsHeaders ==
    (http.op \in {"after_request", "middleware"} /\ http.response # PyNone) =>
        /\ Cardinality(DOMAIN CORS_HEADERS) = 5
        /\ \A h \in DOMAIN CORS_HEADERS :
              /\ h \in DOMAIN http.response.headers
              /\ http.response.headers[h] = CORS_HEADERS[h]

\* C12 witness: enable_cors stored a list of origins, the wrapped
\* application answered a GET with one of them as its allowed origin, and
\* the response the middleware returned allows "*".
C12_Witness ==
    /\ http.op = "middleware"
    /\ http.request.method = "GET"
    /\ IsList(DictGet(TopLevel(site_config), "allow_cors", PyNone))
    /\ http.given # PyNone
    /\ ACAO \in DOMAIN http.given.headers
    /\ http.given.headers[ACAO] = "https://pos.example.com"
    /\ http.response.headers[ACAO] = "*"
    /\ http.response.headers["Content-Type"] = "application/json"

\* C17: check_cors_config changes nothing: site_config.json, the in-memory
\* configuration and System Settings are as before.  Called right after an enable_cors(o) that
\* returned True it reports cors_enabled, csrf_disabled and api_enabled
\* True and origins = o; on an absent or unparseable file it reports the
\* three flags False and origins None.
C17_CheckReadOnly ==
    /\ [][cors_call'.op = "check_cors_config" =>
            /\ UNCHANGED <<site_config, local_conf, system_settings>>
            /\ ~cors_call'.wrote
            /\ (cors_call.op = "enable_cors" /\ cors_call.ret) =>
                  cors_call'.status =
                      ConfigStatus(TRUE, TRUE, TRUE, cors_call.origins)]_vars
    /\ []((cors_call.op = "check_cors_config"
           /\ (~site_config.exists \/ ~site_config.text.wf)) =>
              cors_call.status = ConfigStatus(FALSE, FALSE, FALSE, PyNone))

\* C17 witness: check_cors_config has reported all three flags True and the
\* list of origins enable_cors stored, on a file whose api_settings holds
\* nothing but what enable_cors put there.
C17_Witness ==
    /\ cors_call.op = "check_cors_config"
    /\ cors_call.status =
          ConfigStatus(TRUE, TRUE, TRUE, PyList(<<"https://pos.example.com">>))
    /\ DOMAIN ApiSettings(site_config)
          = {"enable_api", "allow_api_key_authentication"}
    /\ site_config = cors_call.pre

----------------------------------------------------------------------------
(* Properties of the key generators, checked under SpecKeys.               *)

SeqRange(q) == {q[i] : i \in 1..Len(q)}

\* C4: every string generate_api_key returns has exactly 20 characters,
\* every string generate_api_secret returns has exactly 40, and each
\* character is an ASCII letter or a decimal digit.
C4_KeyShape ==
    /\ generated.kind = "api_key"    => Len(generated.value) = 20
    /\ generated.kind = "api_secret" => Len(generated.value) = 40
    /\ \A i \in 1..Len(generated.value) :
          generated.value[i] \in SeqRange(AsciiLetters) \cup SeqRange(Digits)

\* C4 witness: a generated key holding a lower-case letter, an upper-case
\* letter and a digit.
C4_Witness ==
    /\ generated.kind = "api_key"
    /\ SeqRange(generated.value) \cap SeqRange(AsciiLowercase) # {}
    /\ SeqRange(generated.value) \cap SeqRange(AsciiUppercase) # {}
    /\ SeqRange(generated.value) \cap SeqRange(Digits) # {}

----------------------------------------------------------------------------
(* Properties of setup_pos.main, checked under Spec.                       *)

LastRun == runs[Len(runs)]

\* The steps main has run when it leaves step: the steps up to it.
StepsThrough(step) ==
    LET k == CHOOSE k \in 1..Len(MainSteps) : MainSteps[k] = step
    IN  SubSeq(MainSteps, 1, k)

\* The five names main hands back after a run that returned.
SeededNames(run) ==
    LET cr == run.credentials.credentials IN
    <<cr.pos_profile.company, cr.pos_profile.warehouse,
      cr.pos_profile.price_list, cr.default_customer, cr.pos_profile.name>>

\* C1 (as claimed): seeding is idempotent.  When a run of main returns and
\* main is run again on the resulting database (the framework raising
\* nothing of its own in either run), the second run returns too, leaves the
\* number of Company, User, Role, Warehouse, Price List, Customer, POS
\* Profile, Item and Item Price records as it was, and returns the same
\* company, warehouse, price list, customer and POS profile names.
C1_SeedingIdempotent ==
    \A i \in 1..(Len(runs) - 1) :
        (/\ runs[i].outcome = "returned"
         /\ runs[i].hits = 0
         /\ runs[i + 1].hits = 0) =>
            /\ runs[i + 1].outcome = "returned"
            /\ runs[i + 1].inserted = 0
            /\ SeededNames(runs[i + 1]) = SeededNames(runs[i])

FatalSteps ==
    {"create_company", "create_pos_user", "create_warehouse",
     "create_price_list", "create_customer"}

\* C5: when create_company, create_pos_user, create_warehouse,
\* create_price_list or create_customer raises, main rolls the database
\* back (nothing uncommitted is left), raises, has run no later step and has
\* not written pos_credentials.json in that run.
C5_FatalFailure ==
    /\ \A i \in 1..Len(runs) :
          runs[i].raised_in \in FatalSteps =>
              /\ runs[i].outcome = "raised"
              /\ runs[i].rolled_back
              /\ runs[i].steps = StepsThrough(runs[i].raised_in)
              /\ runs[i].credentials = PyNone
              /\ cred_file.exists => cred_file.content.generated_date # i
    /\ (pc = "idle" /\ Len(runs) > 0 /\ LastRun.raised_in \in FatalSteps) =>
          db = committed

\* C5 witness: create_warehouse raised on a framework exception after
\* create_company and create_pos_user had returned; the user they
\* committed is still there.
C5_Witness ==
    /\ Len(runs) = 1
    /\ runs[1].raised_in = "create_warehouse"
    /\ runs[1].hits = 1
    /\ runs[1].rolled_back
    /\ db.User.exists
    /\ ~cred_file.exists

C7_SoftApiFailure ==
    \A i \in 1..Len(runs) :
        (/\ "setup_api_access" \in runs[i].soft
         /\ runs[i].raised_in \notin FatalSteps) =>
            /\ runs[i].steps = MainSteps
            /\ runs[i].outcome = "returned"
            /\ ~runs[i].rolled_back

\* C8 (as claimed): when main returns, every name in the credentials it
\* returns that is not None names a record the database holds at that
\* moment, in a first run and in any later one.
C8_CredentialNamesExist ==
    (pc = "idle" /\ Len(runs) > 0 /\ LastRun.outcome = "returned") =>
        LET cr == LastRun.credentials.credentials IN
        /\ cr.pos_profile.company.str \in CompanyNames(db)
        /\ cr.pos_profile.warehouse.str \in WarehouseNames(db)
        /\ cr.pos_profile.price_list.str \in db.PriceList
        /\ cr.pos_profile.name # PyNone => cr.pos_profile.name.str \in db.POSProfile
        /\ cr.default_customer.str \in db.Customer
        /\ \A k \in 1..Len(cr.sample_items.list) :
              cr.sample_items.list[k].item_code \in db.Item

\* C13: a Company is inserted only by create_company and only when the
\* database holds no Company at all, so the number of Company records never
\* grows except from none to one, over any number of runs of main; and
\* once create_company has returned in a run, the name it returned is the
\* name of a Company in the database.
C13_CompanyCreatedOnce ==
    /\ [][Len(db'.Company) > Len(db.Company) =>
            /\ pc = "idle"
            /\ Len(db.Company) = 0
            /\ Len(db'.Company) = 1]_vars
    /\ [](pc # "idle" =>
            /\ locals.company_name # PyNone
            /\ locals.company_name.str \in CompanyNames(db))

\* C13 witness: a first run of main created the default company and
\* returned; in the second run create_company has returned its name and
\* there is still one Company.
C13_Witness ==
    /\ Len(runs) = 1
    /\ runs[1].outcome = "returned"
    /\ pc = "create_pos_user"
    /\ locals.company_name = PyStr(DEFAULT_COMPANY)
    /\ CompanyNames(db) = {DEFAULT_COMPANY}
    /\ Len(db.Company) = 1

\* The warehouses an earlier create_warehouse call made for a company.
MainStoresOf(d, company_name) ==
    {w \in d.Warehouse : /\ w.company = company_name
                         /\ ~w.is_group
                         /\ w.name.base = WarehouseBase}

\* C14 (as claimed): when create_warehouse returns, the name it returns is
\* the name of a Warehouse in the database, whichever path it took; and a
\* call that finds the warehouse of an earlier call for the same company
\* returns that warehouse's name.
C14_WarehouseNameExists ==
    /\ [](pc = "create_price_list" =>
            locals.warehouse_name.str \in WarehouseNames(db))
    /\ [][(pc = "create_warehouse" /\ pc' = "create_price_list"
            /\ MainStoresOf(db, locals.company_name.str) # {}) =>
              \E w \in MainStoresOf(db, locals.company_name.str) :
                  locals'.warehouse_name = PyStr(w.name)]_vars

\* How many times a user holds a role.
TimesHeld(roles, role_name) ==
    Cardinality({j \in 1..Len(roles) : roles[j] = role_name})

\* C15: once create_pos_user has returned in a run of main, the POS user
\* holds each of the four required roles exactly once and a Role record
\* exists for each, whatever roles the user held before and in whichever
\* run; the call keeps the roles the user held, in order, and appends only
\* roles the user did not hold.
C15_RolesExactlyOnce ==
    /\ [](pc = "create_warehouse" =>
            \A i \in 1..Len(required_roles) :
                /\ TimesHeld(db.User.roles, required_roles[i]) = 1
                /\ required_roles[i] \in db.Role)
    /\ [][(pc = "create_pos_user" /\ pc' = "create_warehouse") =>
            /\ Len(db'.User.roles) >= Len(db.User.roles)
            /\ SubSeq(db'.User.roles, 1, Len(db.User.roles)) = db.User.roles
            /\ \A j \in (Len(db.User.roles) + 1)..Len(db'.User.roles) :
                  TimesHeld(db.User.roles, db'.User.roles[j]) = 0]_vars

\* C15 witness: in a second run of main, create_pos_user has returned for a
\* user who held two of the required roles, in another order, before the
\* first run, and who holds the four of them now.
C15_Witness ==
    /\ Len(runs) = 1
    /\ pc = "create_warehouse"
    /\ db.User.roles = <<"Item Manager", "POS User", "Sales User", "Stock User">>

\* setup_api_access returned a pair (not None, None) in this step of main.
ApiAccessSucceeded ==
    /\ pc = "create_pos_user"
    /\ pc' = "create_warehouse"
    /\ locals'.pos_user.user.api_key # PyNone

\* C16: a non-empty api_key stored on the user is never changed, by any
\* step of any run; when setup_api_access succeeds, the key it returns is
\* the stored one (a new key of 20 characters only if none was stored), the
\* secret it returns is a new one of 40 characters, different from the one
\* stored before, and the pair returned is the pair stored on the User.
C16_ApiKeyKept ==
    /\ [][(db.User.exists /\ ~Falsy(db.User.api_key)) =>
            /\ db'.User.exists
            /\ db'.User.api_key = db.User.api_key]_vars
    /\ [][ApiAccessSucceeded =>
            /\ locals'.pos_user.user.api_key = db'.User.api_key
            /\ locals'.pos_user.user.api_secret = db'.User.api_secret
            /\ db'.User.api_secret # db.User.api_secret
            /\ Len(db'.User.api_secret.str) = API_SECRET_LENGTH
            /\ Falsy(db.User.api_key) =>
                  Len(db'.User.api_key.str) = API_KEY_LENGTH]_vars

\* C16 witness: the user came with the key "key" and the secret "old";
\* setup_api_access has succeeded in a first and in a second run of main,
\* the key is still "key" and the secret is a generated one.
C16_Witness ==
    /\ Len(runs) = 1
    /\ "setup_api_access" \notin runs[1].soft
    /\ Len(runs[1].steps) >= 3
    /\ pc = "create_warehouse"
    /\ locals.pos_user.user.api_key = PyStr(<<"k","e","y">>)
    /\ db.User.api_key = PyStr(<<"k","e","y">>)
    /\ Len(db.User.api_secret.str) = API_SECRET_LENGTH
    /\ locals.pos_user.user.api_secret = db.User.api_secret

\* The list the claim describes: one entry per sample item that is in the
\* database afterwards, in SAMPLE_ITEMS order from item i on, marked as
\* existing when it was in the database before.
RECURSIVE ConfiguredItems(_, _, _)
ConfiguredItems(before, after, i) ==
    IF i > Len(SAMPLE_ITEMS) THEN <<>>
    ELSE
    LET item_data == SAMPLE_ITEMS[i]
        rest      == ConfiguredItems(before, after, i + 1)
    IN  IF item_data.item_code \in after.Item
        THEN <<SampleItem(item_data.item_code, item_data.barcode,
                          item_data.item_code \in before.Item)>> \o rest
        ELSE rest

\* C18 (as claimed): create_sample_items always returns, and the list it
\* returns holds exactly one entry, in SAMPLE_ITEMS order, for each sample
\* item whose Item record is in the database when it returns, with exists
\* True exactly for the items that were there before the call.
C18_SampleItemsList ==
    [][pc = "create_sample_items" =>
          /\ pc' = "save_credentials"
          /\ locals'.sample_items = PyList(ConfiguredItems(db, db', 1))]_vars

\* A run of main ended in its handler at this step.
MainRaised ==
    /\ pc # "idle"
    /\ pc' = "idle"
    /\ runs'[Len(runs')].outcome = "raised"

====
